---------------------------- MODULE Spec2Model ----------------------------
(***************************************************************************)
(* Model of the component library: the Input component                     *)
(* (src/src/components/Input.tsx), the Button component and the export     *)
(* aggregation point (src/index.ts), and the library build configured by   *)
(* src/vite.config.ts.                                                     *)
(*                                                                         *)
(* A component is a function from an attribute mapping (the props object    *)
(* the rendering framework hands it) to an element description.  Props      *)
(* objects live in a store owned by the caller; several render passes may   *)
(* be handed the same object.  A render call runs to completion (JavaScript *)
(* is single threaded), passes interleave between calls.                    *)
(***************************************************************************)
EXTENDS Integers, Sequences, FiniteSets, TLC

VARIABLES
    store,      \* props objects owned by the caller: object id -> attribute mapping
    supplied,   \* history: the mappings as the caller supplied them
    pass,       \* per render pass: its last render call and the element it returned
    buttonImports,  \* the package imports of src/components/Button.tsx
    buildPc,        \* where `vite build && tsc` stands
    pending,        \* module ids the bundler has still to resolve
    bundled,        \* module ids whose code goes into the artifacts
    externalized,   \* module ids left as imports of the artifacts
    toWrite,        \* output formats still to write
    dist            \* the output directory: file name -> file

renderVars == <<store, supplied, pass>>
buildVars == <<buttonImports, buildPc, pending, bundled, externalized, toWrite, dist>>
vars == <<renderVars, buildVars>>

---------------------------------------------------------------------------
(* Values and attribute mappings *)

\* The JavaScript value undefined: what reading an absent property yields,
\* and what a caller may also store explicitly.
undefined == "<undefined>"

\* String attribute values: a legal input-type token and one that is not.
Strings == {"email", "zz"}

Values == Strings \cup {undefined}

\* The five fields Input names in its parameter destructuring.
NamedKeys == {"label", "placeholder", "type", "inputClassName", "labelClassName"}

\* Other attributes of React.InputHTMLAttributes a caller may pass.
PassThroughKeys == {"className", "id"}

AttrKeys == NamedKeys \cup PassThroughKeys

\* Every attribute mapping over AttrKeys: a key is absent, undefined or a string.
AttrMaps == UNION {[S -> Values] : S \in SUBSET AttrKeys}

\* Largest number of attributes in a props object of the render-pass specification.
MaxAttrs == 1

BoundedMaps == {m \in AttrMaps : Cardinality(DOMAIN m) <= MaxAttrs}

\* Property read o.k
Get(o, k) == IF k \in DOMAIN o THEN o[k] ELSE undefined

\* Rest destructuring {a, b, ...rest}: a new object with the own properties
\* of o except the named ones.
ObjectRest(o, excluded) == [k \in DOMAIN o \ excluded |-> o[k]]

\* Object spread {...base, ...over}: later properties overwrite earlier ones.
ObjectSpread(base, over) ==
    [k \in DOMAIN base \cup DOMAIN over |->
        IF k \in DOMAIN over THEN over[k] ELSE base[k]]

\* An element description <tag ...config>children</tag>.
jsx(tag, config, children) == [type |-> tag, props |-> config, children |-> children]

\* A JSX expression container {v} in child position.
JsxExpr(v) == [type |-> "{}", value |-> v]

---------------------------------------------------------------------------
(* Input *)

\* ...props of the parameter destructuring.
InputRestKeepingNamed(attrs) == attrs
InputRestWithoutId(attrs) == ObjectRest(attrs, NamedKeys \cup {"id"})
InputRest(attrs) == ObjectRest(attrs, NamedKeys)

\* <input className={inputClassName} type={type} placeholder={placeholder} {...props} />
InputElementPropsSpreadFirst(inputClassName, type, placeholder, props) ==
    ObjectSpread(props, [className |-> inputClassName, type |-> type,
                         placeholder |-> placeholder])
InputElementPropsSwapped(inputClassName, type, placeholder, props) ==
    ObjectSpread([className |-> inputClassName, type |-> placeholder,
                  placeholder |-> type], props)
InputElementPropsNoClass(inputClassName, type, placeholder, props) ==
    ObjectSpread([type |-> type, placeholder |-> placeholder], props)
InputElementPropsShared(inputClassName, type, placeholder, props) ==
    LET first == pass["p1"]
        leaked == IF first.status = "rendered" /\ first.component = "Input"
                  THEN first.out.children[2].props ELSE <<>>
    IN  ObjectSpread(ObjectSpread(leaked,
            [className |-> inputClassName, type |-> type,
             placeholder |-> placeholder]), props)
InputElementProps(inputClassName, type, placeholder, props) ==
    ObjectSpread([className |-> inputClassName, type |-> type,
                  placeholder |-> placeholder], props)

\* <label className={labelClassName}>
LabelElementProps(labelClassName) == [className |-> labelClassName]

\* {label} followed by the input element
LabelChildrenInputFirst(label, inputElement) == <<inputElement, JsxExpr(label)>>
LabelChildren(label, inputElement) == <<JsxExpr(label), inputElement>>

Input(attrs) ==
    LET label == Get(attrs, "label")
        placeholder == Get(attrs, "placeholder")
        type == Get(attrs, "type")
        inputClassName == Get(attrs, "inputClassName")
        labelClassName == Get(attrs, "labelClassName")
        props == InputRest(attrs)
    IN  jsx("label", LabelElementProps(labelClassName),
            LabelChildren(label,
                jsx("input", InputElementProps(inputClassName, type, placeholder, props),
                    <<>>)))

\* The argument object after the call: Input only reads it.
InputArgumentAfterDelete(attrs) == ObjectRest(attrs, NamedKeys)
InputArgumentAfter(attrs) == attrs

---------------------------------------------------------------------------
(* Button *)

\* <button {...attrs} />
ButtonNoAttributes(attrs) == jsx("button", <<>>, <<>>)
Button(attrs) == jsx("button", attrs, <<>>)

ButtonArgumentAfter(attrs) == attrs

---------------------------------------------------------------------------
(* What the rendering target shows of an element description *)

\* The value of attribute k on element el; undefined means the attribute is not set.
Attribute(el, k) == Get(el.props, k)

\* The text nodes among the children: an expression child that is undefined
\* renders nothing.
IsText(child) == child.type = "{}"
TextNodes(el) ==
    LET shown(c) == IsText(c) /\ c.value # undefined
        RECURSIVE collect(_)
        collect(s) == IF s = <<>> THEN <<>>
                      ELSE (IF shown(Head(s)) THEN <<Head(s).value>> ELSE <<>>)
                           \o collect(Tail(s))
    IN  collect(el.children)

\* The element children with a given tag.
ElementsOf(el, tag) == {i \in DOMAIN el.children : el.children[i].type = tag}

---------------------------------------------------------------------------
(* The library build: vite.config.ts read by `vite build`, then tsc *)

\* build.lib.entry
entryButton == "src/components/Button.tsx"
entry == "src/index.ts"

\* build.lib.formats
formats == <<"es", "umd">>

\* build.lib.fileName
fileNameFormatLast(format) == "component-app.js." \o format
fileNameNoFormat(format) == "component-app.js"
fileName(format) == "component-app." \o format \o ".js"

\* build.rollupOptions.external
externalWithoutJsxRuntime == {"react", "react-dom"}
external == {"react", "react-dom", "react/jsx-runtime"}

\* The directory the build writes to.
outDir == "dist"

\* The modules of the rendering framework a library source can import.
FrameworkModules == {"react", "react-dom", "react/jsx-runtime"}

\* The library's own modules.
LibraryModules ==
    {"src/index.ts", "src/components/Button.tsx", "src/components/Input.tsx"}

\* export { default as Button } from './components/Button';
\* export { default as Input } from './components/Input';
IndexExports ==
    [Button |-> "src/components/Button.tsx", Input |-> "src/components/Input.tsx"]

\* The names a module exports, each with the module that implements it.
ExportsOf(m) == IF m = "src/index.ts" THEN IndexExports ELSE [default |-> m]

\* Input.tsx has no import statement; its JSX compiles to calls into the
\* framework's JSX runtime.
InputImports == {"react/jsx-runtime"}

\* What a module imports: index.ts the modules it re-exports from, a
\* component the framework modules it uses.
ImportsOf(m) ==
    CASE m = "src/index.ts" -> {IndexExports[n] : n \in DOMAIN IndexExports}
      [] m = "src/components/Input.tsx" -> InputImports
      [] m = "src/components/Button.tsx" -> buttonImports
      [] OTHER -> {}

\* "Available Components" of the README.
AvailableComponents == {"Button"}

\* peerDependencies of the package manifest.
peerDependencies == {"react", "react-dom"}

\* The package a module id belongs to.
PackageOf(id) == IF id = "react/jsx-runtime" THEN "react" ELSE id

\* The entry paths and the file allowlist of the package manifest, each path
\* as its segments.
manifest ==
    [main |-> <<".", "dist", "component-app.umd.js">>,
     module |-> <<".", "dist", "component-app.es.js">>,
     types |-> <<".", "dist", "index.d.ts">>,
     exportsImport |-> <<".", "dist", "component-app.es.js">>,
     exportsRequire |-> <<".", "dist", "component-app.umd.js">>,
     exportsTypes |-> <<".", "dist", "index.d.ts">>,
     files |-> {"dist"}]

\* A manifest path relative to the package root: "." segments name the root
\* itself and drop out.
RECURSIVE PathSegments(_)
PathSegments(path) ==
    IF path = <<>> THEN <<>>
    ELSE (IF Head(path) = "." THEN <<>> ELSE <<Head(path)>>) \o PathSegments(Tail(path))

RECURSIVE JoinPath(_)
JoinPath(segments) ==
    IF Len(segments) = 1 THEN segments[1]
    ELSE Head(segments) \o "/" \o JoinPath(Tail(segments))

ResolvePath(path) == JoinPath(PathSegments(path))

\* The top-level directory a manifest path lies in.
TopDirectory(path) == Head(PathSegments(path))

\* The declaration file tsc writes for a library module.
DeclarationFile(m) ==
    CASE m = "src/index.ts" -> "index.d.ts"
      [] m = "src/components/Button.tsx" -> "components/Button.d.ts"
      [] m = "src/components/Input.tsx" -> "components/Input.d.ts"

InDir(dir, name) == dir \o "/" \o name

\* Writing a file replaces a file of the same name.
WriteFile(directory, name, file) ==
    [n \in DOMAIN directory \cup {name} |->
        IF n = name THEN file ELSE directory[n]]

\* The artifact of one output format: the bundled modules, the imports left
\* to the consumer, the names the entry exports.
Artifact(format) ==
    [format |-> format, modules |-> bundled, imports |-> externalized,
     exports |-> ExportsOf(entry)]

Declaration(m) ==
    [format |-> "d.ts", modules |-> {m}, imports |-> {}, exports |-> ExportsOf(m)]

\* No build is running and none has run.
NoBuild ==
    /\ buttonImports = {}
    /\ buildPc = "idle"
    /\ pending = {}
    /\ bundled = {}
    /\ externalized = {}
    /\ toWrite = <<>>
    /\ dist = <<>>

\* vite build starts from the entry.
ViteBuild ==
    /\ buildPc = "idle"
    /\ buildPc' = "bundle"
    /\ pending' = {entry}
    /\ toWrite' = formats
    /\ UNCHANGED <<buttonImports, bundled, externalized, dist, renderVars>>

\* The bundler resolves one import: an id listed in `external` stays an
\* import, any other module is loaded into the bundle with its own imports.
ResolveImport(id) ==
    /\ buildPc = "bundle"
    /\ id \in pending
    /\ IF id \in external
       THEN /\ externalized' = externalized \cup {id}
            /\ pending' = pending \ {id}
            /\ UNCHANGED bundled
       ELSE /\ bundled' = bundled \cup {id}
            /\ pending' = (pending \ {id}) \cup (ImportsOf(id) \ (bundled' \cup externalized))
            /\ UNCHANGED externalized
    /\ UNCHANGED <<buttonImports, buildPc, toWrite, dist, renderVars>>

\* With the module graph complete, the next format's artifact is written.
WriteFormat ==
    /\ buildPc = "bundle"
    /\ pending = {}
    /\ toWrite # <<>>
    /\ dist' = WriteFile(dist, InDir(outDir, fileName(Head(toWrite))),
                         Artifact(Head(toWrite)))
    /\ toWrite' = Tail(toWrite)
    /\ buildPc' = IF toWrite' = <<>> THEN "tsc" ELSE "bundle"
    /\ UNCHANGED <<buttonImports, pending, bundled, externalized, renderVars>>

\* tsc --project tsconfig.lib.json writes the declarations.
RECURSIVE WriteDeclarations(_, _)
WriteDeclarations(directory, ms) ==
    IF ms = {} THEN directory
    ELSE LET m == CHOOSE x \in ms : TRUE
         IN  WriteDeclarations(
                 WriteFile(directory, InDir(outDir, DeclarationFile(m)), Declaration(m)),
                 ms \ {m})

EmitDeclarations ==
    /\ buildPc = "tsc"
    /\ dist' = WriteDeclarations(dist, LibraryModules)
    /\ buildPc' = "done"
    /\ UNCHANGED <<buttonImports, pending, bundled, externalized, toWrite, renderVars>>

NextBuild ==
    \/ ViteBuild
    \/ \E id \in pending : ResolveImport(id)
    \/ WriteFormat
    \/ EmitDeclarations

\* The library sources are given; Button.tsx may import any framework modules.
InitBuild ==
    /\ store = <<>>
    /\ supplied = <<>>
    /\ pass = <<>>
    /\ buttonImports \in SUBSET FrameworkModules
    /\ buildPc = "idle"
    /\ pending = {}
    /\ bundled = {}
    /\ externalized = {}
    /\ toWrite = <<>>
    /\ dist = <<>>

SpecBuild == InitBuild /\ [][NextBuild]_vars

---------------------------------------------------------------------------
(* Render passes *)

Objects == {"o1", "o2"}
Passes == {"p1", "p2"}

Idle == [status |-> "idle"]

Rendered(component, o, out) ==
    [status |-> "rendered", component |-> component, obj |-> o, out |-> out]

\* The rendering framework calls Input with props object o in pass p.
RenderInput(p, o) ==
    /\ pass' = [pass EXCEPT ![p] = Rendered("Input", o, Input(store[o]))]
    /\ store' = [store EXCEPT ![o] = InputArgumentAfter(store[o])]
    /\ UNCHANGED <<supplied, buildVars>>

\* The rendering framework calls Button with props object o in pass p.
RenderButton(p, o) ==
    /\ pass' = [pass EXCEPT ![p] = Rendered("Button", o, Button(store[o]))]
    /\ store' = [store EXCEPT ![o] = ButtonArgumentAfter(store[o])]
    /\ UNCHANGED <<supplied, buildVars>>

Next ==
    \/ \E p \in DOMAIN pass, o \in DOMAIN store : RenderInput(p, o)
    \/ \E p \in DOMAIN pass, o \in DOMAIN store : RenderButton(p, o)

\* Two passes over two props objects of at most MaxAttrs attributes each.
Init ==
    /\ store \in [Objects -> BoundedMaps]
    /\ supplied = store
    /\ pass = [p \in Passes |-> Idle]
    /\ NoBuild

Spec == Init /\ [][Next]_vars

\* One pass over one props object, every attribute mapping over AttrKeys.
InitAttrs ==
    /\ store \in [{"o1"} -> AttrMaps]
    /\ supplied = store
    /\ pass = [p \in {"p1"} |-> Idle]
    /\ NoBuild

SpecAttrs == InitAttrs /\ [][Next]_vars

---------------------------------------------------------------------------
(* Properties of Input and Button *)

IsRendered(p, component) ==
    pass[p].status = "rendered" /\ pass[p].component = component

RenderedInputs == {p \in DOMAIN pass : IsRendered(p, "Input")}
RenderedButtons == {p \in DOMAIN pass : IsRendered(p, "Button")}

\* The attribute mapping the caller supplied for pass p's render call.
Given(p) == supplied[pass[p].obj]

\* The label element and the input element of pass p's output.
LabelOf(p) == pass[p].out
InputOf(p) == pass[p].out.children[2]

\* C1: Input returns a single label element whose children are, in order,
\* the label text and exactly one input element; the text content of the
\* label element is `label` when it is provided and empty when it is omitted.
C1_LabelWrapsTextThenInput ==
    \A p \in RenderedInputs :
        LET el == LabelOf(p)
            label == Get(Given(p), "label")
        IN  /\ el.type = "label"
            /\ Len(el.children) = 2
            /\ IsText(el.children[1])
            /\ ElementsOf(el, "input") = {2}
            /\ ElementsOf(el, "label") = {}
            /\ TextNodes(el) = IF label = undefined THEN <<>> ELSE <<label>>

C1_Witness ==
    \E p \in RenderedInputs :
        /\ Get(Given(p), "label") \in Strings
        /\ TextNodes(LabelOf(p)) # <<>>

\* C2 as stated: whenever inputClassName is provided the class of the input
\* element is exactly inputClassName, whenever labelClassName is provided the
\* class of the label element is exactly labelClassName.
C2_AsStated ==
    \A p \in RenderedInputs :
        LET inputClassName == Get(Given(p), "inputClassName")
            labelClassName == Get(Given(p), "labelClassName")
        IN  /\ inputClassName # undefined =>
                Attribute(InputOf(p), "className") = inputClassName
            /\ labelClassName # undefined =>
                Attribute(LabelOf(p), "className") = labelClassName

\* C2 amended: the class of the label element is exactly labelClassName; the
\* class of the input element is exactly inputClassName unless the mapping
\* carries a pass-through className, whose value it then is; the input
\* element's class is never taken from labelClassName nor the label
\* element's from inputClassName.
C2_ClassNamesApplied ==
    \A p \in RenderedInputs :
        LET given == Given(p)
        IN  /\ Attribute(LabelOf(p), "className") = Get(given, "labelClassName")
            /\ Attribute(InputOf(p), "className") =
                    IF "className" \in DOMAIN given THEN given["className"]
                    ELSE Get(given, "inputClassName")
            /\ DOMAIN LabelOf(p).props = {"className"}

C2_Witness ==
    \E p \in RenderedInputs :
        /\ Get(Given(p), "inputClassName") = "email"
        /\ Get(Given(p), "labelClassName") = "zz"
        /\ "className" \notin DOMAIN Given(p)
        /\ "id" \in DOMAIN Given(p)
        /\ Attribute(InputOf(p), "className") = "email"

\* C3: whatever strings `type` and `placeholder` are, they are the type and
\* placeholder attributes of the input element; when omitted the input
\* element has no value for the attribute; and a render call is never refused.
C3_TypeAndPlaceholderVerbatim ==
    /\ \A p \in RenderedInputs :
        /\ Attribute(InputOf(p), "type") = Get(Given(p), "type")
        /\ Attribute(InputOf(p), "placeholder") = Get(Given(p), "placeholder")
    /\ \A p \in DOMAIN pass, o \in DOMAIN store : ENABLED RenderInput(p, o)

C3_Witness ==
    \E p \in RenderedInputs :
        /\ Get(Given(p), "type") = "zz"
        /\ Get(Given(p), "placeholder") = "email"
        /\ Attribute(InputOf(p), "type") = "zz"

\* C4: every attribute other than the five named fields is on the input
\* element with the value the caller gave, and the label element carries
\* nothing but its own class.
C4_RestForwardedToInput ==
    \A p \in RenderedInputs :
        /\ \A k \in DOMAIN Given(p) \ NamedKeys :
            /\ k \in DOMAIN InputOf(p).props
            /\ InputOf(p).props[k] = Given(p)[k]
        /\ LabelOf(p).props = [className |-> Get(Given(p), "labelClassName")]

C4_Witness ==
    \E p \in RenderedInputs :
        /\ Get(Given(p), "id") = "zz"
        /\ Get(Given(p), "className") = "email"
        /\ Get(Given(p), "labelClassName") = "zz"
        /\ Attribute(InputOf(p), "id") = "zz"

C6_Deterministic ==
    \A p, q \in DOMAIN pass :
        (/\ pass[p].status = "rendered"
         /\ pass[q].status = "rendered"
         /\ pass[p].component = pass[q].component
         /\ Given(p) = Given(q))
        => pass[p].out = pass[q].out

C6_Witness ==
    \E p, q \in DOMAIN pass :
        /\ p # q
        /\ IsRendered(p, "Input")
        /\ IsRendered(q, "Input")
        /\ pass[p].obj # pass[q].obj
        /\ Given(p) = Given(q)
        /\ DOMAIN Given(p) # {}
        /\ pass[p].out = pass[q].out

\* The output of a component called on its own.
Alone(component, attrs) ==
    IF component = "Input" THEN Input(attrs) ELSE Button(attrs)

\* C7: however the passes interleave, each pass holds the output its
\* component yields on its own for the mapping the caller supplied, and no
\* props object differs from what the caller supplied.
C7_PassesIndependent ==
    /\ store = supplied
    /\ \A p \in DOMAIN pass :
        pass[p].status = "rendered" =>
            pass[p].out = Alone(pass[p].component, supplied[pass[p].obj])

C7_Witness ==
    \E p, q \in DOMAIN pass :
        /\ p # q
        /\ IsRendered(p, "Input")
        /\ IsRendered(q, "Button")
        /\ pass[p].obj = pass[q].obj
        /\ DOMAIN Given(p) \cap NamedKeys # {}

---------------------------------------------------------------------------
(* Properties of the build *)

\* The script artifacts in the output directory.
Scripts == {n \in DOMAIN dist : dist[n].format # "d.ts"}

\* C8: the names exported by what is built from the entry point are exactly
\* Button and Input, each bound to its component module, and every
\* component the README lists as available is among them.
C8_PublicApiIsButtonAndInput ==
    buildPc = "done" =>
        /\ Scripts # {}
        /\ \A n \in Scripts \cup {"dist/index.d.ts"} :
            /\ n \in DOMAIN dist
            /\ DOMAIN dist[n].exports = {"Button", "Input"}
            /\ dist[n].exports["Button"] = "src/components/Button.tsx"
            /\ dist[n].exports["Input"] = "src/components/Input.tsx"
            /\ AvailableComponents \subseteq DOMAIN dist[n].exports

C8_Witness ==
    /\ buildPc = "done"
    /\ "dist/component-app.umd.js" \in DOMAIN dist
    /\ DOMAIN dist["dist/component-app.umd.js"].exports = {"Button", "Input"}

\* C9: a finished build has written exactly one artifact per format, the
\* formats are exactly es and umd, the artifact of format f is
\* dist/component-app.<f>.js, and dist/index.d.ts is written with them.
C9_OneArtifactPerFormat ==
    buildPc = "done" =>
        /\ {dist[n].format : n \in Scripts} = {"es", "umd"}
        /\ {n \in Scripts : dist[n].format = "es"} = {"dist/component-app.es.js"}
        /\ {n \in Scripts : dist[n].format = "umd"} = {"dist/component-app.umd.js"}
        /\ "dist/index.d.ts" \in DOMAIN dist
        /\ dist["dist/index.d.ts"].format = "d.ts"

C9_Witness ==
    /\ buildPc = "done"
    /\ Cardinality(Scripts) = 2
    /\ "dist/index.d.ts" \in DOMAIN dist

\* C10: no framework module is ever bundled: each one a library source can
\* import is external, no artifact of either format holds framework code,
\* every framework module the sources import is left as an import of both
\* artifacts, and its package is a peer dependency.
C10_FrameworkNeverBundled ==
    /\ FrameworkModules \subseteq external
    /\ bundled \cap FrameworkModules = {}
    /\ \A n \in DOMAIN dist : dist[n].modules \cap FrameworkModules = {}
    /\ \A n \in Scripts :
        /\ dist[n].imports = buttonImports \cup InputImports
        /\ \A id \in dist[n].imports : PackageOf(id) \in peerDependencies

C10_Witness ==
    /\ buildPc = "done"
    /\ buttonImports = {"react", "react-dom"}
    /\ \A f \in {"es", "umd"} :
        \E n \in Scripts :
            /\ dist[n].format = f
            /\ dist[n].imports = FrameworkModules
            /\ dist[n].modules = LibraryModules

---------------------------------------------------------------------------
(* Properties of the package manifest against the build *)

\* C11: after a build every entry path of the manifest names a file the
\* build wrote: `module` and the `import` export name the one es artifact,
\* `main` and the `require` export the one umd artifact, both `types`
\* entries the declaration file of the entry point, and each path lies in
\* the allow-listed directory dist.
C11_ManifestEntriesResolve ==
    buildPc = "done" =>
        /\ \A e \in {"module", "exportsImport"} :
            {n \in Scripts : dist[n].format = "es"} = {ResolvePath(manifest[e])}
        /\ \A e \in {"main", "exportsRequire"} :
            {n \in Scripts : dist[n].format = "umd"} = {ResolvePath(manifest[e])}
        /\ \A e \in {"types", "exportsTypes"} :
            /\ ResolvePath(manifest[e]) \in DOMAIN dist
            /\ dist[ResolvePath(manifest[e])].format = "d.ts"
            /\ dist[ResolvePath(manifest[e])].modules = {entry}
        /\ manifest.files = {outDir}
        /\ \A e \in DOMAIN manifest \ {"files"} :
            TopDirectory(manifest[e]) \in manifest.files

C11_Witness ==
    /\ buildPc = "done"
    /\ ResolvePath(manifest.main) \in Scripts
    /\ ResolvePath(manifest.module) \in Scripts
    /\ ResolvePath(manifest.main) # ResolvePath(manifest.module)
    /\ ResolvePath(manifest.types) \in DOMAIN dist \ Scripts

---------------------------------------------------------------------------
(* Properties of how Input merges the pass-through attributes *)

\* The attributes Input sets on the input element itself.
SetByInput == {"className", "type", "placeholder"}

\* C12: the pass-through attributes are merged onto the input element after
\* the attributes Input sets itself: a pass-through attribute with a key
\* Input also sets (className) decides that attribute, so the class of the
\* input element is the pass-through className and not inputClassName.
C12_PassThroughClassNameWins ==
    \A p \in RenderedInputs :
        \A k \in (DOMAIN Given(p) \ NamedKeys) \cap SetByInput :
            /\ k = "className"
            /\ Attribute(InputOf(p), k) = Given(p)[k]

C12_Witness ==
    \E p \in RenderedInputs :
        /\ Get(Given(p), "inputClassName") = "email"
        /\ Get(Given(p), "className") = "zz"
        /\ Attribute(InputOf(p), "className") = "zz"

\* C13: the pass-through attributes on the input element include none of the
\* five named keys: the attributes of the input element are className, type
\* and placeholder and the keys of the mapping that are not named, so label,
\* inputClassName and labelClassName are never among them, and type and
\* placeholder carry the one value of the named field.
C13_NamedKeysNotForwarded ==
    \A p \in RenderedInputs :
        /\ DOMAIN InputOf(p).props = SetByInput \cup (DOMAIN Given(p) \ NamedKeys)
        /\ DOMAIN InputOf(p).props \cap {"label", "inputClassName", "labelClassName"} = {}
        /\ \A k \in {"type", "placeholder"} :
            InputOf(p).props[k] = Get(Given(p), k)

C13_Witness ==
    \E p \in RenderedInputs :
        /\ NamedKeys \subseteq DOMAIN Given(p)
        /\ Given(p)["label"] = "email"
        /\ Given(p)["type"] = "zz"
        /\ "id" \in DOMAIN Given(p)
        /\ DOMAIN InputOf(p).props = {"className", "type", "placeholder", "id"}

=============================================================================
